---- MODULE Spec2Model ----
(***************************************************************************)
(* Model of dcimg.py: class DCIMGFile, a copy-on-write memory-mapped       *)
(* reader of Hamamatsu DCIMG files.                                        *)
(*                                                                         *)
(* A byte range is a sequence of bytes; the byte at address a is element  *)
(* a + 1.  An array element is kept as its raw little-endian bytes, so    *)
(* that arrays of any element size compare by value.                      *)
(***************************************************************************)
EXTENDS Integers, Sequences, FiniteSets, TLC

VARIABLES
    mm,            \* self.mm: None, or a live or closed copy-on-write mapping of a file,
                   \* kept as the file's name and the private bytes that differ from it
    file_header,   \* self.file_header: NoHdr or the decoded record
    sess_header,   \* self.sess_header: NoHdr, Empty or the decoded record
    dtype,         \* self.dtype: None, "uint8" or "uint16"
    call,          \* the last operation called and its arguments
    exc,           \* the exception the last operation raised, or NoExc
    ret,           \* the value the last operation returned, or NoRet
    parse_attempted \* whether the last open() called _parse_header

vars == <<mm, file_header, sess_header, dtype, call, exc, ret, parse_attempted>>

None == "None"
NoExc == "NoExc"
\* a header attribute that is None, and one that is an empty array
NoHdr == [st |-> "none"]
Empty == [st |-> "empty"]
\* no value returned
NoRet == [kind |-> "none"]

-----------------------------------------------------------------------------
(* Bounds of the model. *)

\* layer indices range over -1 .. MaxIndex
MaxIndex == 2
\* frames_per_layer ranges over -1 .. MaxFramesPerLayer
MaxFramesPerLayer == 2

Indices == -1 .. MaxIndex
FramesPerLayer == -1 .. MaxFramesPerLayer
\* target element types: none given, the native one, another one
Dtypes == {None, "native", "float64"}
\* what uninitialised array memory may hold
UninitFill == {0, 255}
\* NumPy's promotion of uint32 * (negative Python int): int64 (legacy) or
\* OverflowError (NEP 50)
Promotions == {"legacy", "nep50"}

-----------------------------------------------------------------------------
(* Byte ranges. *)

Min(a, b) == IF a < b THEN a ELSE b

RECURSIVE FromBytesLittle(_)
\* int.from_bytes(bytes, 'little'); the empty string gives 0
FromBytesLittle(bytes) ==
    IF bytes = << >> THEN 0 ELSE Head(bytes) + 256 * FromBytesLittle(Tail(bytes))

\* a little-endian unsigned field of `size` bytes at offset `off` of a record
Field(rec, off, size) == FromBytesLittle(SubSeq(rec, off + 1, off + size))

RECURSIVE StripNul(_)
\* a NumPy 'S8' value drops its trailing NUL bytes
StripNul(s) ==
    IF s # << >> /\ s[Len(s)] = 0 THEN StripNul(SubSeq(s, 1, Len(s) - 1)) ELSE s

\* b"DCIMG"
DCIMG == <<68, 67, 73, 77, 71>>

FileHdrSize == 72
SessHdrSize == 80
PixelBase == 232
FooterPreamble == 272

\* np.fromstring(bytes, FILE_HDR_DTYPE)[0]
DecodeFileHdr(rec) ==
    [ st |-> "set",
      file_format    |-> StripNul(SubSeq(rec, 1, 8)),
      format_version |-> Field(rec, 8, 4),
      nsess          |-> Field(rec, 32, 4),
      nfrms          |-> Field(rec, 36, 4),
      header_size    |-> Field(rec, 40, 4),
      file_size      |-> Field(rec, 48, 8),
      file_size2     |-> Field(rec, 64, 8) ]

\* np.fromstring(bytes, SESS_HDR_DTYPE)[0]
DecodeSessHdr(rec) ==
    [ st |-> "set",
      session_size      |-> Field(rec, 0, 8),
      nfrms             |-> Field(rec, 32, 4),
      byte_depth        |-> Field(rec, 36, 4),
      xsize             |-> Field(rec, 44, 4),
      bytes_per_row     |-> Field(rec, 48, 4),
      ysize             |-> Field(rec, 52, 4),
      bytes_per_img     |-> Field(rec, 56, 4),
      header_size       |-> Field(rec, 68, 4),
      session_data_size |-> Field(rec, 72, 8) ]

Zeros(n) == [i \in 1..n |-> 0]
\* np.zeros(1, dtype=FILE_HDR_DTYPE), np.zeros(1, dtype=SESS_HDR_DTYPE)
ZeroFileHdr == DecodeFileHdr(Zeros(FileHdrSize))
ZeroSessHdr == DecodeSessHdr(Zeros(SessHdrSize))

\* the properties of the handle
session_footer_offset(fh, sh) == fh.header_size + sh.session_data_size
\* (a timestamp_offset that forgets the frame counters before the timestamps)
timestamp_offset_NoCounters(fh, sh) == session_footer_offset(fh, sh) + FooterPreamble
timestamp_offset(fh, sh) == session_footer_offset(fh, sh) + FooterPreamble + 4 * sh.nfrms

\* the size of an element of self.dtype; np.ndarray takes dtype None as float64
ItemSize(dt) == IF dt = "uint8" THEN 1 ELSE IF dt = "uint16" THEN 2 ELSE 8
DtypeName(dt) == IF dt = None THEN "float64" ELSE dt

-----------------------------------------------------------------------------
(* The files a handle is opened on.  A file is laid out as FILE_HDR_DTYPE  *)
(* and SESS_HDR_DTYPE say: the file header at 0, the session header at     *)
(* header_size, the frames from PixelBase on, and the footer (preamble,    *)
(* frame counters, timestamps, first four pixels of each frame) at         *)
(* header_size + session_data_size.                                        *)

RECURSIVE ToBytesLittle(_, _)
ToBytesLittle(v, size) ==
    IF size = 0 THEN << >> ELSE <<v % 256>> \o ToBytesLittle(v \div 256, size - 1)

\* the byte at offset `off` of a record holding `fields`, a set of <<offset, size, value>>
FieldByte(fields, off) ==
    IF \E f \in fields : f[1] <= off /\ off < f[1] + f[2]
    THEN LET f == CHOOSE g \in fields : g[1] <= off /\ off < g[1] + g[2]
         IN  ToBytesLittle(f[3], f[2])[off - f[1] + 1]
    ELSE 0

FileHdrFields(p) ==
    { <<8, 4, 7>>, <<32, 4, 1>>, <<36, 4, p.nfrms>>, <<40, 4, p.header_size>>,
      <<48, 8, p.len>>, <<64, 8, p.len>> }

SessHdrFields(p) ==
    { <<0, 8, p.len - p.header_size>>, <<32, 4, p.nfrms>>, <<36, 4, p.byte_depth>>,
      <<44, 4, p.xsize>>, <<48, 4, p.bytes_per_row>>, <<52, 4, p.ysize>>,
      <<56, 4, p.bytes_per_img>>, <<68, 4, PixelBase - p.header_size>>,
      <<72, 8, p.session_data_size>> }

\* pixel and footer bytes that tell addresses apart
Filler(a) == (a * 37 + 11) % 128

\* the hardware's marker 0000 FFFF 0000 FFFF 0000 over the first pixels of a frame
SentinelByte(j, byte_depth) == IF (j \div byte_depth) % 2 = 1 THEN 255 ELSE 0

FileByte(p, a) ==
    LET sfo == p.header_size + p.session_data_size
        ts  == sfo + FooterPreamble + 4 * p.nfrms
        frm == (a - PixelBase) \div p.bytes_per_img
        j   == (a - PixelBase) % p.bytes_per_img
    IN  IF a < 8 THEN p.magic[a + 1]
        ELSE IF a < FileHdrSize THEN FieldByte(FileHdrFields(p), a)
        ELSE IF p.header_size <= a /\ a < p.header_size + SessHdrSize
             THEN FieldByte(SessHdrFields(p), a - p.header_size)
        ELSE IF ts <= a /\ a < ts + 8 * p.nfrms
             THEN LET e == p.ts[((a - ts) \div 8) + 1]
                  IN  ToBytesLittle(e[(((a - ts) % 8) \div 4) + 1], 4)[((a - ts) % 4) + 1]
        ELSE IF /\ a >= PixelBase /\ a < sfo /\ frm < p.nfrms
                /\ j < 5 * p.byte_depth /\ p.bytes_per_img >= 5 * p.byte_depth
             THEN SentinelByte(j, p.byte_depth)
        ELSE Filler(a)

MakeFile(p) == [a \in 1..p.len |-> FileByte(p, a - 1)]

\* what NumPy's promotion rule can be for these arguments: it only shows on a negative one
PromotionsFor(index, frames_per_layer) ==
    IF index < 0 \/ frames_per_layer < 0 THEN Promotions ELSE {"legacy"}

\* a well-formed file of two square 4 x 4 one-byte frames
Square ==
    [ magic |-> DCIMG \o <<0, 0, 0>>, header_size |-> 72, nfrms |-> 2, byte_depth |-> 1,
      xsize |-> 4, bytes_per_row |-> 4, ysize |-> 4, bytes_per_img |-> 16,
      session_data_size |-> 192, len |-> 568, ts |-> << <<10, 5>>, <<10, 500>> >> ]

FileNames ==
    { "square", "deep", "wide", "short", "cut",
      "magic0", "magic1", "magic2", "magic3", "magic4", "pad",
      "depth3", "row", "img", "nosess" }

BadMagic(k) == [Square EXCEPT !.magic[k + 1] = 88]

FileParams(name) ==
    CASE name = "square" -> Square
      \* one 4 x 4 frame of two-byte pixels
      [] name = "deep"   -> [Square EXCEPT !.byte_depth = 2, !.bytes_per_row = 8,
                                !.bytes_per_img = 32, !.nfrms = 1, !.len = 556,
                                !.ts = << <<7, 0>> >>]
      \* 4 columns, 2 rows: passes the size checks with bytes_per_img = 4
      [] name = "wide"   -> [Square EXCEPT !.ysize = 2, !.bytes_per_row = 2,
                                !.bytes_per_img = 4, !.session_data_size = 176,
                                !.len = 552, !.ts = << <<7, 0>>, <<300, 50>> >>]
      \* 4 columns, 9 rows and a session_data_size of 0: the footer of the two
      \* frames ends at byte 376, which is where the file ends
      [] name = "short"  -> [Square EXCEPT !.ysize = 9, !.bytes_per_row = 9,
                                !.bytes_per_img = 81, !.session_data_size = 0,
                                !.len = 376]
      \* the square file cut one byte into the second timestamp
      [] name = "cut"    -> [Square EXCEPT !.len = 553, !.ts = << <<7, 0>>, <<300, 50>> >>]
      [] name = "magic0" -> BadMagic(0)
      [] name = "magic1" -> BadMagic(1)
      [] name = "magic2" -> BadMagic(2)
      [] name = "magic3" -> BadMagic(3)
      [] name = "magic4" -> BadMagic(4)
      \* a bare file header whose magic is followed by a byte that is not NUL
      [] name = "pad"    -> [BadMagic(5) EXCEPT !.len = FileHdrSize]
      [] name = "depth3" -> [Square EXCEPT !.byte_depth = 3]
      [] name = "row"    -> [Square EXCEPT !.bytes_per_row = 5]
      [] name = "img"    -> [Square EXCEPT !.bytes_per_img = 17]
      [] name = "nosess" -> [Square EXCEPT !.header_size = 600]

\* the bytes of each file
FileBytes == [name \in FileNames |-> MakeFile(FileParams(name))]

-----------------------------------------------------------------------------
(* The mapping: mmap.mmap(f.fileno(), 0, access=mmap.ACCESS_COPY) *)

NoDirty == [a \in {} |-> 0]
NoMap == [st |-> "none", file |-> None, dirty |-> NoDirty]

\* a fresh copy-on-write mapping of a file: writes stay private to the mapping
Mmap(file_name) == [st |-> "live", file |-> file_name, dirty |-> NoDirty]

\* len(mm)
Size(m) == IF m.st = "none" THEN 0 ELSE Len(FileBytes[m.file])

\* the byte at address a as seen through mapping m
ByteAt(m, a) ==
    IF (a + 1) \in DOMAIN m.dirty THEN m.dirty[a + 1] ELSE FileBytes[m.file][a + 1]

\* mm[a:b] for 0 <= a: Python clamps a slice to the buffer
Slice(m, a, b) ==
    LET end == Min(b, Size(m))
    IN  [i \in 1..(end - a) |-> ByteAt(m, a + i - 1)]

\* (a Store that lands one byte too far)
StoreOneTooFar(m, dst, bytes) ==
    LET at(a) == IF dst + 1 < a /\ a <= dst + 1 + Len(bytes)
                 THEN bytes[a - dst - 1] ELSE m.dirty[a]
        touched == DOMAIN m.dirty \cup (dst + 2 .. dst + 1 + Len(bytes))
    IN  [m EXCEPT !.dirty =
            [a \in {b \in touched : at(b) # FileBytes[m.file][b]} |-> at(a)]]

\* mapping m once `bytes` are stored from address dst on
Store(m, dst, bytes) ==
    LET at(a) == IF dst < a /\ a <= dst + Len(bytes) THEN bytes[a - dst] ELSE m.dirty[a]
        touched == DOMAIN m.dirty \cup (dst + 1 .. dst + Len(bytes))
    IN  [m EXCEPT !.dirty =
            [a \in {b \in touched : at(b) # FileBytes[m.file][b]} |-> at(a)]]

-----------------------------------------------------------------------------
(* close(), open() and _parse_header(). *)

\* no call has returned a result that its caller still holds
Idle == [op |-> "idle"]

Init ==
    /\ mm = NoMap
    /\ file_header = NoHdr
    /\ sess_header = NoHdr
    /\ dtype = None
    /\ call = Idle
    /\ exc = NoExc
    /\ ret = NoRet
    /\ parse_attempted = FALSE

\* _parse_header() on mapping m: the exception raised and the attributes left behind.
\* sh and dt are the attributes before the call.
ParseHeader(m, sh, dt) ==
    LET fh   == DecodeFileHdr(Slice(m, 0, FileHdrSize))
        rec  == Slice(m, fh.header_size, fh.header_size + SessHdrSize)
        new  == DecodeSessHdr(rec)
        ndt  == IF new.byte_depth = 1 THEN "uint8" ELSE "uint16"
        out(e, f, s, d) == [exc |-> e, file_header |-> f, sess_header |-> s, dtype |-> d]
    IN  \* a closed mmap cannot be sliced; a short string is no whole record
        IF m.st = "closed" \/ Size(m) < FileHdrSize
            THEN out("ValueError", ZeroFileHdr, sh, dt)
        ELSE IF fh.file_format # DCIMG
            THEN out("RuntimeError", fh, sh, dt)
        \* an empty string parses to an empty array, whose [0] does not exist
        ELSE IF rec = << >>
            THEN out("IndexError", fh, Empty, dt)
        ELSE IF Len(rec) < SessHdrSize
            THEN out("ValueError", fh, ZeroSessHdr, dt)
        ELSE IF new.byte_depth \notin {1, 2}
            THEN out("RuntimeError", fh, new, dt)
        \* the message's format(**vars(self)) finds no key 'bytes_per_row'
        ELSE IF new.bytes_per_row # new.byte_depth * new.ysize
            THEN out("KeyError", fh, new, ndt)
        ELSE IF new.bytes_per_img # new.bytes_per_row * new.ysize
            THEN out("KeyError", fh, new, ndt)
        ELSE out(NoExc, fh, new, ndt)

\* the mapping open() stores in self.mm: closed when its first bytes are not the magic
MapFile(file_name) ==
    LET m == Mmap(file_name)
    IN  IF Slice(m, 0, 5) # DCIMG THEN [m EXCEPT !.st = "closed"] ELSE m

Close ==
    /\ call = Idle
    /\ mm' = NoMap
    /\ call' = [op |-> "close"]
    /\ exc' = NoExc
    /\ ret' = NoRet
    /\ UNCHANGED <<file_header, sess_header, dtype, parse_attempted>>

Open(file_name) ==
    /\ call = Idle
    /\ call' = [op |-> "open", file_name |-> file_name]
    /\ ret' = NoRet
    /\ IF file_name = None
       THEN \* self.file_name is None too: the builtin open(None) raises after close()
            /\ mm' = NoMap
            /\ exc' = "TypeError"
            /\ parse_attempted' = FALSE
            /\ UNCHANGED <<file_header, sess_header, dtype>>
       ELSE LET m == MapFile(file_name)
                r == ParseHeader(m, sess_header, dtype)
            IN  /\ mm' = m
                /\ parse_attempted' = TRUE
                /\ file_header' = r.file_header
                /\ sess_header' = r.sess_header
                /\ dtype' = r.dtype
                /\ exc' = r.exc

-----------------------------------------------------------------------------
(* timestamps *)

RECURSIVE FloorLog10(_)
\* floor(log10(f)) for f >= 1
FloorLog10(f) == IF f < 10 THEN 0 ELSE 1 + FloorLog10(f \div 10)

RECURSIVE Decimal(_, _)
\* the number num * 10^-exp, written with a num that 10 does not divide
Decimal(num, exp) ==
    IF num % 10 = 0 THEN Decimal(num \div 10, exp - 1) ELSE [num |-> num, exp |-> exp]

\* val = whole; if fraction != 0: val += fraction * pow(10, -(floor(log10(fraction)) + 1)).
\* The value is whole + num * 10^-exp.
TsValue(whole, fraction) ==
    IF fraction = 0
    THEN [whole |-> whole, num |-> 0, exp |-> 0]
    ELSE LET d == Decimal(fraction, FloorLog10(fraction) + 1)
         IN  [whole |-> whole, num |-> d.num, exp |-> d.exp]

\* one pass of the loop, with the cursor it starts from
TsEntry(m, index) ==
    TsValue(FromBytesLittle(Slice(m, index, index + 4)),
            FromBytesLittle(Slice(m, index + 4, index + 8)))

\* the array the loop fills
TsArray(m, fh, sh) ==
    [i \in 1..sh.nfrms |-> TsEntry(m, timestamp_offset(fh, sh) + 8 * (i - 1))]

\* the outcome of reading the property: [exc, ret]
TimestampsRun(m, fh, sh) ==
    IF sh = NoHdr THEN [exc |-> "TypeError", ret |-> NoRet]
    ELSE IF sh = Empty THEN [exc |-> "IndexError", ret |-> NoRet]
    ELSE IF sh.nfrms > 0 /\ m.st = "none" THEN [exc |-> "TypeError", ret |-> NoRet]
    ELSE IF sh.nfrms > 0 /\ m.st = "closed" THEN [exc |-> "ValueError", ret |-> NoRet]
    ELSE [exc |-> NoExc, ret |-> [kind |-> "timestamps", vals |-> TsArray(m, fh, sh)]]

Timestamps ==
    LET r == TimestampsRun(mm, file_header, sess_header)
    IN  /\ call = Idle
        /\ call' = [op |-> "timestamps"]
        /\ exc' = r.exc
        /\ ret' = r.ret
        /\ UNCHANGED <<mm, file_header, sess_header, dtype, parse_attempted>>

-----------------------------------------------------------------------------
(* layer() and frame() *)

\* np.ndarray(shape, dtype, buffer, offset) over a buffer of `len` bytes: the exception
\* NumPy raises when the offset or the `nbytes` bytes after it are not in the buffer
NdarrayCheck(len, offset, nbytes) ==
    IF offset < 0 \/ offset > len THEN "ValueError"
    ELSE IF len - offset < nbytes THEN "TypeError"
    ELSE NoExc

\* the element values of a C-contiguous array of `count` elements at `offset`
Elems(m, offset, count, isz) ==
    [j \in 1..count |-> Slice(m, offset + (j - 1) * isz, offset + j * isz)]

RECURSIVE LayerLoop(_, _, _)
\* the passes i .. frames_per_layer - 1 of the loop over mapping m; g holds the
\* loop's constants.  Gives the exception raised and the mapping left.
LayerLoop(m, i, g) ==
    LET index == g.index + 4 * g.byte_depth * i
        dst   == g.offset + i * g.ysize * g.xsize * g.isz
        px    == NdarrayCheck(Size(m), index, 4 * g.isz)
    IN  IF i >= g.frames_per_layer THEN [exc |-> NoExc, mm |-> m]
        ELSE IF px # NoExc THEN [exc |-> px, mm |-> m]
        \* a[i, 0, 0:4] = px: row 0 must exist and hold at least the 4 elements
        ELSE IF g.ysize = 0 THEN [exc |-> "IndexError", mm |-> m]
        ELSE IF g.xsize < 4 THEN [exc |-> "ValueError", mm |-> m]
        ELSE LayerLoop(Store(m, dst, Slice(m, index, index + 4 * g.isz)), i + 1, g)

\* a.astype(dtype), or a itself when no dtype is given
Astype(a, dt) ==
    IF dt = None THEN a
    ELSE IF dt = "native" THEN [a EXCEPT !.copy = TRUE]
    ELSE [a EXCEPT !.copy = TRUE, !.dtype = dt]

\* layer(index, frames_per_layer, dt) on mapping m with headers fh, sh and self.dtype sdt:
\* the exception raised, the array returned and the mapping afterwards.
\* promo is NumPy's promotion rule, fill what uninitialised memory holds.
LayerRun(m, fh, sh, sdt, index, frames_per_layer, dt, promo, fill) ==
    LET isz    == ItemSize(sdt)
        offset == PixelBase + sh.bytes_per_img * frames_per_layer * index
        count  == frames_per_layer * sh.ysize * sh.xsize
        g      == [ index |-> session_footer_offset(fh, sh) + FooterPreamble
                                + sh.nfrms * (4 + 8)
                                + 4 * sh.byte_depth * index * frames_per_layer,
                    offset |-> offset, frames_per_layer |-> frames_per_layer,
                    byte_depth |-> sh.byte_depth, isz |-> isz,
                    xsize |-> sh.xsize, ysize |-> sh.ysize ]
        a      == NdarrayCheck(Size(m), offset, count * isz)
        loop   == LayerLoop(m, 0, g)
        shape  == <<frames_per_layer, sh.ysize, sh.xsize>>
        fail(e, after) == [exc |-> e, ret |-> NoRet, mm |-> after]
        array(elems) == Astype([kind |-> "array", shape |-> shape, copy |-> FALSE,
                                dtype |-> DtypeName(sdt), elems |-> elems], dt)
    IN  IF sh = NoHdr THEN fail("TypeError", m)
        ELSE IF sh = Empty THEN fail("IndexError", m)
        ELSE IF promo = "nep50" /\ (frames_per_layer < 0 \/ index < 0)
            THEN fail("OverflowError", m)
        ELSE IF frames_per_layer < 0 THEN fail("ValueError", m)
        ELSE IF m.st = "closed" THEN fail("ValueError", m)
        ELSE IF m.st = "none"
            \* no buffer: a and px are fresh, uninitialised arrays
            THEN IF frames_per_layer > 0 /\ sh.ysize = 0 THEN fail("IndexError", m)
                 ELSE IF frames_per_layer > 0 /\ sh.xsize < 4 THEN fail("ValueError", m)
                 ELSE [exc |-> NoExc, mm |-> m,
                       ret |-> array([j \in 1..count |-> [b \in 1..isz |-> fill]])]
        ELSE IF a # NoExc THEN fail(a, m)
        ELSE IF loop.exc # NoExc THEN fail(loop.exc, loop.mm)
        ELSE [exc |-> NoExc, mm |-> loop.mm,
              ret |-> array(Elems(loop.mm, offset, count, isz))]

Layer(index, frames_per_layer, dt, promo, fill) ==
    LET r == LayerRun(mm, file_header, sess_header, dtype, index, frames_per_layer,
                      dt, promo, fill)
    IN  /\ call = Idle
        /\ call' = [op |-> "layer", index |-> index,
                    frames_per_layer |-> frames_per_layer, dtype |-> dt]
        /\ exc' = r.exc
        /\ ret' = r.ret
        /\ mm' = r.mm
        /\ UNCHANGED <<file_header, sess_header, dtype, parse_attempted>>

\* np.squeeze(a, axis) with no axis: the dimensions of size 1 are dropped
Squeeze(a) == [a EXCEPT !.shape = SelectSeq(a.shape, LAMBDA n : n # 1)]

\* frame(index, dt) is np.squeeze(self.layer(index), dt): dt arrives as the axis
FrameRun(m, fh, sh, sdt, index, dt, promo, fill) ==
    LET r == LayerRun(m, fh, sh, sdt, index, 1, None, promo, fill)
    IN  IF r.exc # NoExc THEN r
        ELSE IF dt # None THEN [exc |-> "TypeError", ret |-> NoRet, mm |-> r.mm]
        ELSE [r EXCEPT !.ret = Squeeze(r.ret)]

Frame(index, dt, promo, fill) ==
    LET r == FrameRun(mm, file_header, sess_header, dtype, index, dt, promo, fill)
    IN  /\ call = Idle
        /\ call' = [op |-> "frame", index |-> index, dtype |-> dt]
        /\ exc' = r.exc
        /\ ret' = r.ret
        /\ mm' = r.mm
        /\ UNCHANGED <<file_header, sess_header, dtype, parse_attempted>>

-----------------------------------------------------------------------------

\* The caller is done with what the last call returned or raised.  Calls are
\* synchronous and the handle keeps no record of them, so the next call starts
\* from the handle's attributes alone.
Discard ==
    /\ call # Idle
    /\ call' = Idle
    /\ exc' = NoExc
    /\ ret' = NoRet
    /\ parse_attempted' = FALSE
    /\ UNCHANGED <<mm, file_header, sess_header, dtype>>

\* what uninitialised memory can hold: it only shows when there is no mapping
FillsFor(m) == IF m.st = "none" THEN UninitFill ELSE {0}

Next ==
    \/ \E f \in FileNames \cup {None} : Open(f)
    \/ Close
    \/ Timestamps
    \/ \E i \in Indices, n \in FramesPerLayer, dt \in Dtypes :
          \E promo \in PromotionsFor(i, n), fill \in FillsFor(mm) :
             Layer(i, n, dt, promo, fill)
    \/ \E i \in Indices, dt \in Dtypes :
          \E promo \in PromotionsFor(i, 1), fill \in FillsFor(mm) :
             Frame(i, dt, promo, fill)
    \/ Discard

Spec == Init /\ [][Next]_vars

-----------------------------------------------------------------------------
(* What the claims speak of. *)

\* the headers a first open() of file f parses, and the exception it raises
HeadersOf(f) == ParseHeader(MapFile(f), NoHdr, None)

\* the handle holds a live mapping of a file that open() accepted
IsOpen == mm.st = "live" /\ HeadersOf(mm.file).exc = NoExc

\* the frames index * frames_per_layer + i a layer addresses
FramesOf(index, frames_per_layer) ==
    {index * frames_per_layer + i : i \in 0..(frames_per_layer - 1)}

\* the bytes [a, a + n) lie inside mapping m
Inside(m, a, n) == 0 <= a /\ a + n <= Size(m)

RECURSIVE DecDigits(_)
\* the base-10 digits of n >= 1, most significant first
DecDigits(n) == IF n < 10 THEN <<n>> ELSE DecDigits(n \div 10) \o <<n % 10>>

RECURSIVE StripZeros(_)
\* a digit string without its trailing zeros
StripZeros(d) ==
    IF d # << >> /\ d[Len(d)] = 0 THEN StripZeros(SubSeq(d, 1, Len(d) - 1)) ELSE d

\* the bytes seen through m1 and m2 differ at address a - 1
Differ(m1, m2, a) ==
    (IF a \in DOMAIN m1.dirty THEN m1.dirty[a] ELSE FileBytes[m1.file][a])
      # (IF a \in DOMAIN m2.dirty THEN m2.dirty[a] ELSE FileBytes[m2.file][a])

(* C1: for an opened file with xsize >= 4 and a layer whose frames are all   *)
(* below nfrms, element [i, 0, 0..3] of the result is the footer's corner    *)
(* pixel of frame index * frames_per_layer + i, and every other element      *)
(* [i, r, c] is the pixel at 232 + bytes_per_img * (index * frames_per_layer *)
(* + i) + byte_depth * (r * xsize + c).                                      *)
C1_LayerRoundTrip ==
    [][ ( /\ call'.op = "layer"
          /\ IsOpen
          /\ sess_header.xsize >= 4
          /\ call'.index >= 0
          /\ call'.frames_per_layer >= 1
          /\ \A k \in FramesOf(call'.index, call'.frames_per_layer) :
                k < sess_header.nfrms
          /\ exc' = NoExc )
        => LET sh == sess_header
               bd == sh.byte_depth
               corners == session_footer_offset(file_header, sh) + FooterPreamble
                            + sh.nfrms * (4 + 8)
           IN  \A i \in 0..(call'.frames_per_layer - 1), r \in 0..(sh.ysize - 1),
                  c \in 0..(sh.xsize - 1) :
                 LET k  == call'.index * call'.frames_per_layer + i
                     at == IF r = 0 /\ c < 4
                           THEN corners + 4 * bd * k + bd * c
                           ELSE PixelBase + sh.bytes_per_img * k + bd * (r * sh.xsize + c)
                 IN  ret'.elems[(i * sh.ysize + r) * sh.xsize + c + 1]
                        = Slice(mm, at, at + bd) ]_vars

\* the session header stored in file f
StoredSessHdr(f) ==
    LET m == Mmap(f)
        hs == DecodeFileHdr(Slice(m, 0, FileHdrSize)).header_size
    IN  DecodeSessHdr(Slice(m, hs, hs + SessHdrSize))

\* file f has the magic and a byte depth of 1 or 2 and breaks a size identity
SizeMismatch(f) ==
    LET sh == StoredSessHdr(f)
    IN  /\ Slice(Mmap(f), 0, 8) = DCIMG \o <<0, 0, 0>>
        /\ sh.byte_depth \in {1, 2}
        /\ \/ sh.bytes_per_row # sh.byte_depth * sh.ysize
           \/ sh.bytes_per_img # sh.bytes_per_row * sh.ysize

(* C2: open() of a file that breaks bytes_per_row = byte_depth * ysize or    *)
(* bytes_per_img = bytes_per_row * ysize raises the format-validation error, *)
(* the RuntimeError that a bad magic or a bad byte depth raises.             *)
C2_SizeMismatchIsFormatError ==
    (call.op = "open" /\ call.file_name # None /\ SizeMismatch(call.file_name))
        => exc = "RuntimeError"

(* C3: open() of a file with one byte of the leading "DCIMG" altered raises  *)
(* the format-validation error and attempts no parsing step after that.      *)
C3_BadMagicStopsParsing ==
    ( /\ call.op = "open"
      /\ call.file_name # None
      /\ Slice(Mmap(call.file_name), 0, 5) # DCIMG )
        => exc = "RuntimeError" /\ ~parse_attempted

(* C4: frame(k, dtype), for a valid frame k and any dtype, is                *)
(* layer(k, 1, dtype) without its leading dimension: shape (ysize, xsize),   *)
(* the same elements, and the element type asked for.                        *)
C4_FrameIsLayerSqueezed ==
    [][ ( /\ call'.op = "frame"
          /\ IsOpen
          /\ call'.index \in 0..(sess_header.nfrms - 1) )
        => LET l == LayerRun(mm, file_header, sess_header, dtype, call'.index, 1,
                             call'.dtype, "legacy", 0)
           IN  /\ exc' = l.exc
               /\ l.exc = NoExc =>
                    /\ ret'.shape = <<sess_header.ysize, sess_header.xsize>>
                    /\ ret'.elems = l.ret.elems
                    /\ ret'.dtype = l.ret.dtype ]_vars

(* C5: a layer(index, frames_per_layer) whose pixel block                    *)
(* [232 + bytes_per_img * frames_per_layer * index, + frames_per_layer *     *)
(* bytes_per_img) or one of whose corner-pixel reads is not inside the       *)
(* mapped range raises and returns no data.                                  *)
C5_OutOfRangeLayerRaises ==
    [][ ( /\ call'.op = "layer"
          /\ IsOpen
          /\ call'.frames_per_layer >= 1
          /\ LET sh == sess_header
                 n  == call'.frames_per_layer
                 corners == session_footer_offset(file_header, sh) + FooterPreamble
                              + sh.nfrms * (4 + 8)
             IN  \/ ~Inside(mm, PixelBase + sh.bytes_per_img * n * call'.index,
                            n * sh.bytes_per_img)
                 \/ \E k \in FramesOf(call'.index, n) :
                       ~Inside(mm, corners + 4 * sh.byte_depth * k, 4 * sh.byte_depth) )
        => exc' # NoExc /\ ret' = NoRet ]_vars

\* timestamp i (from 0) as the claim decodes it from mapping m
ClaimedTimestamp(m, fh, sh, i, v) ==
    LET at       == fh.header_size + sh.session_data_size + FooterPreamble
                      + 4 * sh.nfrms + 8 * i
        whole    == FromBytesLittle(Slice(m, at, at + 4))
        fraction == FromBytesLittle(Slice(m, at + 4, at + 8))
        digits   == StripZeros(DecDigits(fraction))
    IN  /\ v.whole = whole
        /\ fraction = 0 => v.num = 0
        \* whole + fraction / 10^d, d the number of digits of fraction: the
        \* digits of fraction, read after the decimal point
        /\ fraction # 0 => DecDigits(v.num) = digits /\ v.exp = Len(digits)

(* C6: timestamps on an open file whose timestamp table is mapped returns    *)
(* nfrms values in frame order; value i is whole when fraction = 0 and       *)
(* whole + fraction / 10^digits(fraction) otherwise, whole and fraction the  *)
(* little-endian 32-bit integers at session_footer_offset + 272 + 4 * nfrms  *)
(* + 8 * i.                                                                  *)
C6_TimestampsDecode ==
    ( /\ call.op = "timestamps"
      /\ IsOpen
      /\ Inside(mm, session_footer_offset(file_header, sess_header) + FooterPreamble
                      + 4 * sess_header.nfrms, 8 * sess_header.nfrms) )
        => /\ exc = NoExc
           /\ DOMAIN ret.vals = 1..sess_header.nfrms
           /\ \A i \in 1..sess_header.nfrms :
                ClaimedTimestamp(mm, file_header, sess_header, i - 1, ret.vals[i])

\* timestamps returned 10.5 for a fraction of 5 and for one of 500, or a whole
\* number for a fraction of 0
C6_Witness ==
    /\ call.op = "timestamps"
    /\ IsOpen
    /\ exc = NoExc
    /\ Len(ret.vals) = 2
    /\ \/ /\ ret.vals[1] = ret.vals[2]
          /\ ret.vals[1] = [whole |-> 10, num |-> 5, exp |-> 1]
          /\ Slice(mm, timestamp_offset(file_header, sess_header) + 12,
                   timestamp_offset(file_header, sess_header) + 16) = <<244, 1, 0, 0>>
       \/ ret.vals[1] = [whole |-> 7, num |-> 0, exp |-> 0]

(* C7: timestamps on a mapping that ends before timestamp_offset + 8 * nfrms *)
(* raises; it never returns values for the frames it could not read.         *)
C7_TruncatedTableRaises ==
    ( /\ call.op = "timestamps"
      /\ IsOpen
      /\ ~Inside(mm, timestamp_offset(file_header, sess_header), 8 * sess_header.nfrms) )
        => exc # NoExc /\ ret = NoRet

(* C8, as claimed: every byte seen through an open handle's mapping keeps    *)
(* the value it had right after open().                                      *)
C8_NoByteEverChanges ==
    mm.st = "live" => mm.dirty = NoDirty

\* the addresses (from 1) of elements [i, 0, 0..3] of the view layer() builds
RestoredBytes(sh, sdt, index, frames_per_layer) ==
    UNION { LET dst == PixelBase + sh.bytes_per_img * frames_per_layer * index
                         + i * sh.ysize * sh.xsize * ItemSize(sdt)
            IN  (dst + 1)..(dst + 4 * ItemSize(sdt)) :
            i \in 0..(frames_per_layer - 1) }

(* C8, amended: open() maps the file afresh; close(), timestamps and header  *)
(* parsing change no byte seen through the mapping; layer() and frame()      *)
(* change only the bytes of elements [i, 0, 0..3] of the view they build,    *)
(* and never the mapping's state or file.                                    *)
C8_OnlyCornerPixelsChange ==
    [][ /\ call'.op = "open" => mm'.dirty = NoDirty
        /\ call'.op \in {"timestamps", "idle"} => mm' = mm
        /\ call'.op \in {"layer", "frame"} =>
             /\ mm'.st = mm.st /\ mm'.file = mm.file
             /\ \A a \in DOMAIN mm.dirty \cup DOMAIN mm'.dirty :
                  Differ(mm, mm', a) =>
                    /\ sess_header \notin {NoHdr, Empty}
                    /\ a \in RestoredBytes(sess_header, dtype, call'.index,
                            IF call'.op = "frame" THEN 1 ELSE call'.frames_per_layer) ]_vars

\* a layer() that returned has replaced bytes of the mapping
C8_Witness ==
    /\ call.op = "layer"
    /\ IsOpen
    /\ exc = NoExc
    /\ mm.dirty # NoDirty

(* C9: whenever the handle holds a mapping, the mapping is live and the      *)
(* handle's headers were read from it and satisfy the open-time invariants.  *)
C9_HeldMappingIsValid ==
    mm.st # "none" =>
        /\ mm.st = "live"
        /\ HeadersOf(mm.file).exc = NoExc
        /\ file_header = HeadersOf(mm.file).file_header
        /\ sess_header = HeadersOf(mm.file).sess_header
        /\ file_header.file_format = DCIMG
        /\ sess_header.byte_depth \in {1, 2}
        /\ sess_header.bytes_per_row = sess_header.byte_depth * sess_header.ysize
        /\ sess_header.bytes_per_img = sess_header.bytes_per_row * sess_header.ysize

(* C10: on an open handle, whatever calls were made since open(), timestamps *)
(* and layer(index, frames_per_layer) for frames below nfrms return what     *)
(* they would return as the first call after open().                         *)
C10_ReadsAreHistoryIndependent ==
    (IsOpen /\ call = Idle) =>
        LET fresh == Mmap(mm.file)
        IN  /\ TimestampsRun(mm, file_header, sess_header)
                 = TimestampsRun(fresh, file_header, sess_header)
            /\ \A index \in 0..MaxIndex, n \in 1..MaxFramesPerLayer :
                 (\A k \in FramesOf(index, n) : k < sess_header.nfrms) =>
                    LET now   == LayerRun(mm, file_header, sess_header, dtype,
                                          index, n, None, "legacy", 0)
                        first == LayerRun(fresh, file_header, sess_header, dtype,
                                          index, n, None, "legacy", 0)
                    IN  now.exc = first.exc /\ now.ret = first.ret

====
